---- MODULE Spec2Model ----
(***************************************************************************)
(* A model of genny's parse package (src/parse/parse.go): the token-aware  *)
(* line substituter, the per-set generator, the multi-set merger and the   *)
(* package renamer.                                                        *)
(*                                                                         *)
(* Text is modelled at the character level.  A string is a TLA+ string, a  *)
(* text (the content of a reader or of a byte buffer in which every chunk  *)
(* written ends with a newline) is the sequence of its lines, each without *)
(* its line terminator.                                                    *)
(***************************************************************************)
EXTENDS Integers, Sequences, FiniteSets, TLC

(***************************************************************************)
(* Package strings / bytes / unicode, as far as parse.go uses them.        *)
(***************************************************************************)

\* s[a..b] (1-based, inclusive), cut at the end of s; "" when a > b
Sub(s, a, b) == SubSeq(s, a, IF b > Len(s) THEN Len(s) ELSE b)

Char(s, i) == Sub(s, i, i)

From(s, i) == Sub(s, i, Len(s))

Lower == {"a","b","c","d","e","f","g","h","i","j","k","l","m",
          "n","o","p","q","r","s","t","u","v","w","x","y","z"}

Upper == {"A","B","C","D","E","F","G","H","I","J","K","L","M",
          "N","O","P","Q","R","S","T","U","V","W","X","Y","Z"}

Digit == {"0","1","2","3","4","5","6","7","8","9"}

\* unicode.IsSpace on the characters the model uses
Space == {" ", "\t", "\r", "\n"}

IsLetter(c) == c \in Lower \cup Upper \cup {"_"}

HasPrefix(s, p) == Len(s) >= Len(p) /\ Sub(s, 1, Len(p)) = p

HasSuffix(s, p) == Len(s) >= Len(p) /\ Sub(s, Len(s) - Len(p) + 1, Len(s)) = p

\* strings.Index, 1-based; 0 when sub does not occur in s
RECURSIVE IndexFrom(_, _, _)
IndexFrom(s, sub, i) ==
    IF i + Len(sub) - 1 > Len(s) THEN 0
    ELSE IF Sub(s, i, i + Len(sub) - 1) = sub THEN i
    ELSE IndexFrom(s, sub, i + 1)

Index(s, sub) == IndexFrom(s, sub, 1)

Contains(s, sub) == Index(s, sub) # 0

\* strings.Replace(s, old, new, 1), old not empty
ReplaceFirst(s, old, new) ==
    LET i == Index(s, old)
    IN  IF i = 0 THEN s
        ELSE Sub(s, 1, i - 1) \o new \o From(s, i + Len(old))

\* strings.Replace(s, old, new, -1), old not empty
RECURSIVE ReplaceAll(_, _, _)
ReplaceAll(s, old, new) ==
    LET i == Index(s, old)
    IN  IF i = 0 THEN s
        ELSE Sub(s, 1, i - 1) \o new \o ReplaceAll(From(s, i + Len(old)), old, new)

RECURSIVE TrimRight(_, _)
TrimRight(s, cutset) ==
    IF Len(s) > 0 /\ Char(s, Len(s)) \in cutset
    THEN TrimRight(Sub(s, 1, Len(s) - 1), cutset)
    ELSE s

RECURSIVE TrimLeft(_, _)
TrimLeft(s, cutset) ==
    IF Len(s) > 0 /\ Char(s, 1) \in cutset THEN TrimLeft(From(s, 2), cutset) ELSE s

\* index of the first character of s at or after i that is (in = TRUE) or is
\* not (in = FALSE) in set; Len(s) + 1 when there is none
RECURSIVE Skip(_, _, _, _)
Skip(s, i, set, in) ==
    IF i > Len(s) \/ ((Char(s, i) \in set) = in) THEN i ELSE Skip(s, i + 1, set, in)

\* strings.Fields: the maximal runs of non-space characters
RECURSIVE Fields(_)
Fields(s) ==
    LET b == Skip(s, 1, Space, FALSE)
        e == Skip(s, b, Space, TRUE)
    IN  IF b > Len(s) THEN << >>
        ELSE <<Sub(s, b, e - 1)>> \o Fields(From(s, e))

\* strings.Split(s, sep), sep not empty
RECURSIVE Split(_, _)
Split(s, sep) ==
    LET i == Index(s, sep)
    IN  IF i = 0 THEN <<s>>
        ELSE <<Sub(s, 1, i - 1)>> \o Split(From(s, i + Len(sep)), sep)

\* strings.Join
RECURSIVE Join(_, _)
Join(parts, sep) ==
    IF Len(parts) = 0 THEN ""
    ELSE IF Len(parts) = 1 THEN parts[1]
    ELSE parts[1] \o sep \o Join(Tail(parts), sep)

\* strings.ToUpper of one character
ToUpper(c) ==
    CASE c = "a" -> "A" [] c = "b" -> "B" [] c = "c" -> "C" [] c = "d" -> "D"
      [] c = "e" -> "E" [] c = "f" -> "F" [] c = "g" -> "G" [] c = "h" -> "H"
      [] c = "i" -> "I" [] c = "j" -> "J" [] c = "k" -> "K" [] c = "l" -> "L"
      [] c = "m" -> "M" [] c = "n" -> "N" [] c = "o" -> "O" [] c = "p" -> "P"
      [] c = "q" -> "Q" [] c = "r" -> "R" [] c = "s" -> "S" [] c = "t" -> "T"
      [] c = "u" -> "U" [] c = "v" -> "V" [] c = "w" -> "W" [] c = "x" -> "X"
      [] c = "y" -> "Y" [] c = "z" -> "Z" [] OTHER -> c

(***************************************************************************)
(* Package-level values of parse.go.                                       *)
(***************************************************************************)

header == <<"", "",
            "// This file was automatically generated by genny.",
            "// Any changes will be lost if this file is regenerated.",
            "// see https://github.com/cheekybits/genny",
            "">>

packageKeyword == "package"
importKeyword == "import"
openBrace == "("
closeBrace == ")"
genericPackage == "generic"
genericType == "generic.Type"
genericNumber == "generic.Number"
linefeed == {"\r", "\n"}
unwantedLinePrefixes == <<"//go:generate genny ">>

(***************************************************************************)
(* go/scanner, on one line of source, in mode ScanComments.  A token is    *)
(* [tok, lit]: tok is the token's String() (IDENT, INT, STRING, COMMENT,   *)
(* ILLEGAL, or the spelling of an operator or a keyword), lit its literal  *)
(* text.  The model covers identifiers, keywords, decimal integers,        *)
(* interpreted string literals, // comments, the operators of Operators,   *)
(* automatic semicolon insertion and illegal characters.  Block comments,  *)
(* raw strings, character and floating-point literals and the operators    *)
(* outside Operators are not modelled; the lines of the pools hold none.   *)
(***************************************************************************)

Keywords == {"break", "case", "chan", "const", "continue", "default", "defer",
             "else", "fallthrough", "for", "func", "go", "goto", "if", "import",
             "interface", "map", "package", "range", "return", "select",
             "struct", "switch", "type", "var"}

Operators == {"...", ":=", "==", "*=", "/=", "&&", "&=",
              "(", ")", "[", "]", "{", "}", ",", ";", ".", ":", "=", "*", "&", "/"}

\* token.Token.IsLiteral
IsLiteral(tok) == tok \in {"IDENT", "INT", "FLOAT", "IMAG", "CHAR", "STRING"}

\* the end (exclusive) of the string literal whose opening quote is at i
RECURSIVE StringEnd(_, _)
StringEnd(s, i) ==
    IF i > Len(s) THEN i
    ELSE IF Char(s, i) = "\"" THEN i + 1
    ELSE IF Char(s, i) = "\\" THEN StringEnd(s, i + 2)
    ELSE StringEnd(s, i + 1)

\* the longest operator of Operators that s has at i ("" when none)
OperatorAt(s, i) ==
    IF Sub(s, i, i + 2) \in Operators /\ i + 2 <= Len(s) THEN Sub(s, i, i + 2)
    ELSE IF Sub(s, i, i + 1) \in Operators /\ i + 1 <= Len(s) THEN Sub(s, i, i + 1)
    ELSE IF Char(s, i) \in Operators THEN Char(s, i)
    ELSE ""

\* Scanner.Scan at offset i with the scanner's insertSemi flag:
\* [tok, lit, next (the offset after the token), semi (the flag after it)]
Scan(src, i, insertSemi) ==
    LET j  == Skip(src, i, {" ", "\t", "\r"}, FALSE)
        ch == Char(src, j)
    IN  IF j > Len(src)
        THEN IF insertSemi
             THEN [tok |-> ";", lit |-> "\n", next |-> j, semi |-> FALSE]
             ELSE [tok |-> "EOF", lit |-> "", next |-> j, semi |-> FALSE]
        ELSE IF IsLetter(ch)
        THEN LET e  == Skip(src, j, Lower \cup Upper \cup Digit \cup {"_"}, FALSE)
                 id == Sub(src, j, e - 1)
             IN  IF Len(id) > 1 /\ id \in Keywords
                 THEN [tok |-> id, lit |-> id, next |-> e,
                       semi |-> id \in {"break", "continue", "fallthrough", "return"}]
                 ELSE [tok |-> "IDENT", lit |-> id, next |-> e, semi |-> TRUE]
        ELSE IF ch \in Digit
        THEN LET e == Skip(src, j, Digit, FALSE)
             IN  [tok |-> "INT", lit |-> Sub(src, j, e - 1), next |-> e, semi |-> TRUE]
        ELSE IF ch = "\""
        THEN LET e == StringEnd(src, j + 1)
             IN  [tok |-> "STRING", lit |-> Sub(src, j, e - 1), next |-> e, semi |-> TRUE]
        ELSE IF Sub(src, j, j + 1) = "//" /\ j + 1 <= Len(src)
        THEN IF insertSemi
             THEN [tok |-> ";", lit |-> "\n", next |-> j, semi |-> FALSE]
             ELSE [tok |-> "COMMENT", lit |-> From(src, j), next |-> Len(src) + 1,
                   semi |-> FALSE]
        ELSE IF OperatorAt(src, j) # ""
        THEN LET op == OperatorAt(src, j)
             IN  [tok |-> op, lit |-> IF op = ";" THEN ";" ELSE "",
                  next |-> j + Len(op), semi |-> op \in {")", "]", "}"}]
        ELSE [tok |-> "ILLEGAL", lit |-> ch, next |-> j + 1, semi |-> insertSemi]

\* the tokens Scan returns for src from offset i on, up to EOF
RECURSIVE TokensFrom(_, _, _)
TokensFrom(src, i, insertSemi) ==
    LET t == Scan(src, i, insertSemi)
    IN  IF t.tok = "EOF" THEN << >>
        ELSE <<[tok |-> t.tok, lit |-> t.lit]>> \o TokensFrom(src, t.next, t.semi)

Tokens(src) == TokensFrom(src, 1, FALSE)

(***************************************************************************)
(* The lexical substituter.                                                *)
(***************************************************************************)

isExported(lit) == Len(lit) # 0 /\ Char(lit, 1) \in Upper

\* wordify, for a type whose stripped form is not empty
wordify(s, exported) ==
    LET s1 == TrimRight(s, {"{", "}"})
        s2 == TrimLeft(s1, {"*", "&"})
        s3 == ReplaceAll(s2, ".", "")
    IN  IF ~exported THEN s3 ELSE ToUpper(Char(s3, 1)) \o From(s3, 2)

subIntoLiteral(lit, typeTemplate, specificType) ==
    IF lit = typeTemplate THEN specificType
    ELSE IF ~Contains(lit, typeTemplate) THEN lit
    ELSE LET specificLg == wordify(specificType, TRUE)
             specificSm == wordify(specificType, FALSE)
             result     == ReplaceAll(lit, typeTemplate, specificLg)
         IN  IF HasPrefix(result, specificLg) /\ ~isExported(lit)
             THEN ReplaceFirst(result, specificLg, specificSm)
             ELSE result

RECURSIVE subWords(_, _, _)
subWords(words, typeTemplate, specificType) ==
    IF Len(words) = 0 THEN ""
    ELSE subIntoLiteral(words[1], typeTemplate, specificType) \o " "
         \o subWords(Tail(words), typeTemplate, specificType)

subTypeIntoComment(line, typeTemplate, specificType) ==
    subWords(Fields(line), typeTemplate, specificType)

\* a loop that has no case for comments before the case for literals
subTokenNoComment(t, typeTemplate, specificType) ==
    IF IsLiteral(t.tok) THEN subIntoLiteral(t.lit, typeTemplate, specificType) \o " "
    ELSE IF t.tok = "COMMENT" THEN t.lit \o " "
    ELSE t.tok \o " "

\* what one iteration of subTypeIntoLine's loop appends to output for token t
subToken(t, typeTemplate, specificType) ==
    IF t.tok = "COMMENT" THEN subTypeIntoComment(t.lit, typeTemplate, specificType) \o " "
    ELSE IF IsLiteral(t.tok) THEN subIntoLiteral(t.lit, typeTemplate, specificType) \o " "
    ELSE t.tok \o " "

RECURSIVE subTokens(_, _, _)
subTokens(toks, typeTemplate, specificType) ==
    IF Len(toks) = 0 THEN ""
    ELSE subToken(toks[1], typeTemplate, specificType)
         \o subTokens(Tail(toks), typeTemplate, specificType)

subTypeIntoLine(line, typeTemplate, specificType) ==
    subTokens(Tokens(line), typeTemplate, specificType)

(***************************************************************************)
(* go/parser.ParseFile, as far as generateSpecific depends on it: whether  *)
(* the source parses, and the top-level type declarations whose type is a  *)
(* selector expression.  The token stream is that of the lines without the *)
(* comments (mode 0); the file must open with its package clause, hold no  *)
(* second one, and hold every import declaration before the other          *)
(* declarations.  A declaration is found by its keyword at nesting depth   *)
(* 0; its own syntax is not checked.                                       *)
(***************************************************************************)

RECURSIVE FileTokens(_)
FileTokens(lines) ==
    IF Len(lines) = 0 THEN << >>
    ELSE SelectSeq(Tokens(lines[1]), LAMBDA t : t.tok # "COMMENT")
         \o FileTokens(Tail(lines))

TokAt(toks, i) == IF i <= Len(toks) THEN toks[i] ELSE [tok |-> "EOF", lit |-> ""]

\* the declarations at depth 0 from token i on: [kw, name, x], where for
\* `type name x.Sel` name is the declared name and x the selector's package
RECURSIVE TopLevel(_, _, _)
TopLevel(toks, i, depth) ==
    IF i > Len(toks) THEN << >>
    ELSE LET t == toks[i].tok
         IN  IF t \in {"(", "{", "["} THEN TopLevel(toks, i + 1, depth + 1)
             ELSE IF t \in {")", "}", "]"} THEN TopLevel(toks, i + 1, depth - 1)
             ELSE IF depth = 0 /\ t \in {"package", "import", "type", "var", "const", "func"}
             THEN LET sel == /\ t = "type"
                             /\ TokAt(toks, i + 1).tok = "IDENT"
                             /\ TokAt(toks, i + 2).tok = "IDENT"
                             /\ TokAt(toks, i + 3).tok = "."
                             /\ TokAt(toks, i + 4).tok = "IDENT"
                  IN  <<[kw |-> t,
                         name |-> IF sel THEN toks[i + 1].lit ELSE "",
                         x |-> IF sel THEN toks[i + 2].lit ELSE ""]>>
                      \o TopLevel(toks, i + 1, depth)
             ELSE TopLevel(toks, i + 1, depth)

ParseFile(lines) ==
    LET toks  == FileTokens(lines)
        decls == TopLevel(toks, 1, 0)
        ok    == /\ TokAt(toks, 1).tok = "package"
                 /\ TokAt(toks, 2).tok = "IDENT"
                 /\ TokAt(toks, 3).tok = ";"
                 /\ \A n \in 2..Len(decls) :
                        /\ decls[n].kw # "package"
                        /\ decls[n].kw = "import" => decls[n - 1].kw \in {"package", "import"}
    IN  [ok |-> ok, Decls |-> IF ok THEN decls ELSE << >>]

(***************************************************************************)
(* The state.                                                              *)
(***************************************************************************)

VARIABLES
    template,           \* the content of `in`, the template source
    typeSets,           \* the substitution sets, in order
    pkgName,            \* the target package name ("" for none)
    pc,                 \* where Generics (or generateSpecific) stands
    inPos,              \* the offset of `in`: the lines its reader has taken
    k,                  \* the index of the typeSet being generated
    totalOutput,        \* Generics: totalOutput
    buf,                \* generateSpecific: buf
    comment,            \* generateSpecific: comment
    line,               \* generateSpecific: line
    todo,               \* the keys the range loop over typeSet has not visited yet
    cpos,               \* the lines the cleanup scanner has read of totalOutput
    packageFound,       \* Generics: packageFound
    insideImportBlock,  \* Generics: insideImportBlock
    cleanOutputLines,   \* Generics: cleanOutputLines
    output,             \* the bytes handed to imports.Process or returned with an error
    err,                \* the error Generics returns
    origin,             \* history: where the lines of buf, totalOutput, cleanOutputLines
                        \* and the pending comment come from
    run,                \* which of two runs on the same inputs this is
    first,              \* what the first run returned
    sub                 \* a call of subTypeIntoLine, token by token

vars == <<template, typeSets, pkgName, pc, inPos, k, totalOutput, buf, comment, line,
          todo, cpos, packageFound, insideImportBlock, cleanOutputLines, output, err,
          origin, run, first, sub>>

inputs == <<template, typeSets, pkgName>>
genVars == <<buf, comment, line, todo>>
cleanVars == <<cpos, packageFound, insideImportBlock, cleanOutputLines>>

NoError == [type |-> "nil", GenericType |-> ""]
errSource == [type |-> "errSource", GenericType |-> ""]
errMissingSpecificType(name) == [type |-> "errMissingSpecificType", GenericType |-> name]

\* a byte slice: nil, or the text lines
Nil == [nil |-> TRUE, lines |-> << >>]
Bytes(lines) == [nil |-> FALSE, lines |-> lines]

\* a header line comes from set 0, line 0
NoOrigin == [buf |-> << >>, comment |-> 0, total |-> [n \in 1..Len(header) |-> <<0, 0>>],
             clean |-> << >>]

NoSub == [pc |-> "idle"]

(***************************************************************************)
(* generateSpecific                                                        *)
(***************************************************************************)

\* a seek that leaves the reader where it is
SeekStartKeep(pos) == pos

\* in.Seek(0, os.SEEK_SET): the new offset
SeekStart(pos) == 0

\* bufio.ScanLines drops one trailing carriage return
dropCR(s) == IF HasSuffix(s, "\r") THEN Sub(s, 1, Len(s) - 1) ELSE s

\* makeLine, without the newline that ends the line
makeLine(s) == TrimRight(s, linefeed)

\* a check that compares the selector's package with genericType
RECURSIVE MissingSpecificTypeWrongName(_, _)
MissingSpecificTypeWrongName(decls, typeSet) ==
    IF Len(decls) = 0 THEN ""
    ELSE IF /\ decls[1].kw = "type"
            /\ decls[1].name # ""
            /\ decls[1].x = genericType
            /\ decls[1].name \notin DOMAIN typeSet
    THEN decls[1].name
    ELSE MissingSpecificTypeWrongName(Tail(decls), typeSet)

\* the first declared generic type that typeSet has no key for ("" when none)
RECURSIVE MissingSpecificType(_, _)
MissingSpecificType(decls, typeSet) ==
    IF Len(decls) = 0 THEN ""
    ELSE IF /\ decls[1].kw = "type"
            /\ decls[1].name # ""
            /\ decls[1].x = genericPackage
            /\ decls[1].name \notin DOMAIN typeSet
    THEN decls[1].name
    ELSE MissingSpecificType(Tail(decls), typeSet)

\* lines 95-128: seek, parse, check that every generic type has a specific type, seek
Begin ==
    /\ pc = "begin"
    /\ LET file    == ParseFile(SubSeq(template, SeekStart(inPos) + 1, Len(template)))
           missing == MissingSpecificType(file.Decls, typeSets[k])
       IN  IF ~file.ok
           THEN /\ pc' = "done" /\ output' = Nil /\ err' = errSource
                /\ inPos' = Len(template)
                /\ UNCHANGED <<genVars, origin>>
           ELSE IF missing # ""
           THEN /\ pc' = "done" /\ output' = Nil /\ err' = errMissingSpecificType(missing)
                /\ inPos' = Len(template)
                /\ UNCHANGED <<genVars, origin>>
           ELSE /\ pc' = "scan"
                /\ inPos' = SeekStart(Len(template))
                /\ buf' = << >> /\ comment' = "" /\ line' = "" /\ todo' = {}
                /\ origin' = [origin EXCEPT !.buf = << >>, !.comment = 0]
                /\ UNCHANGED <<output, err>>
    /\ UNCHANGED <<inputs, k, totalOutput, cleanVars, run, first, sub>>

\* lines 134-142: the scanner yields a line; a line that holds generic.Type or
\* generic.Number is dropped with the pending comment
ScanLine ==
    /\ pc = "scan"
    /\ inPos < Len(template)
    /\ LET l == dropCR(template[inPos + 1])
       IN  IF Contains(l, genericType) \/ Contains(l, genericNumber)
           THEN /\ comment' = "" /\ origin' = [origin EXCEPT !.comment = 0]
                /\ UNCHANGED <<pc, line, todo>>
           ELSE /\ line' = l /\ todo' = DOMAIN typeSets[k] /\ pc' = "range"
                /\ UNCHANGED <<comment, origin>>
    /\ inPos' = inPos + 1
    /\ UNCHANGED <<inputs, k, totalOutput, buf, cleanVars, output, err, run, first, sub>>

\* lines 144-149: one iteration of the range over the map, whose order Go leaves open
RangeStep ==
    /\ pc = "range"
    /\ \E t \in todo :
          /\ line' = IF Contains(line, t) THEN subTypeIntoLine(line, t, typeSets[k][t])
                     ELSE line
          /\ todo' = todo \ {t}
    /\ UNCHANGED <<inputs, pc, inPos, k, totalOutput, buf, comment, cleanVars, output, err,
                   origin, run, first, sub>>

\* lines 151-165: write the pending comment, then hold the line (a comment) or write it
WriteLine ==
    /\ pc = "range"
    /\ todo = {}
    /\ LET flushed == IF comment # "" THEN Append(buf, makeLine(comment)) ELSE buf
           from    == IF comment # "" THEN Append(origin.buf, origin.comment) ELSE origin.buf
       IN  IF HasPrefix(line, "//")
           THEN /\ comment' = line /\ buf' = flushed
                /\ origin' = [origin EXCEPT !.buf = from, !.comment = inPos]
           ELSE /\ comment' = "" /\ buf' = Append(flushed, makeLine(line))
                /\ origin' = [origin EXCEPT !.buf = Append(from, inPos), !.comment = 0]
    /\ pc' = "scan"
    /\ UNCHANGED <<inputs, inPos, k, totalOutput, line, todo, cleanVars, output, err,
                   run, first, sub>>

\* lines 134, 169 and 181-188: the scanner is at the end of the input, generateSpecific
\* returns buf and Generics appends it and goes on to the next typeSet
Return ==
    /\ pc = "scan"
    /\ inPos = Len(template)
    /\ totalOutput' = totalOutput \o buf
    /\ origin' = [origin EXCEPT
                    !.total = @ \o [n \in 1..Len(buf) |-> <<k, origin.buf[n]>>]]
    /\ k' = k + 1
    /\ pc' = IF k < Len(typeSets) THEN "begin" ELSE "clean"
    /\ UNCHANGED <<inputs, inPos, genVars, cleanVars, output, err, run, first, sub>>

(***************************************************************************)
(* Generics: the cleanup pass and the package rename                       *)
(***************************************************************************)

RECURSIVE hasUnwantedPrefix(_, _)
hasUnwantedPrefix(l, prefixes) ==
    /\ Len(prefixes) > 0
    /\ \/ HasPrefix(l, prefixes[1])
       \/ hasUnwantedPrefix(l, Tail(prefixes))

\* lines 195-232: one line of the cleanup
CleanLine ==
    /\ pc = "clean"
    /\ cpos < Len(totalOutput)
    /\ LET l    == dropCR(totalOutput[cpos + 1])
           keep == /\ cleanOutputLines' = Append(cleanOutputLines, makeLine(l))
                   /\ origin' = [origin EXCEPT !.clean = Append(@, origin.total[cpos + 1])]
           skip == UNCHANGED <<cleanOutputLines, origin>>
       IN  IF insideImportBlock
           THEN /\ insideImportBlock' = ~HasSuffix(l, closeBrace)
                /\ skip
                /\ UNCHANGED packageFound
           ELSE IF HasPrefix(l, packageKeyword)
           THEN /\ packageFound' = TRUE
                /\ IF packageFound \/ hasUnwantedPrefix(l, unwantedLinePrefixes)
                   THEN skip ELSE keep
                /\ UNCHANGED insideImportBlock
           ELSE IF HasPrefix(l, importKeyword)
           THEN /\ insideImportBlock' = HasSuffix(l, openBrace)
                /\ skip
                /\ UNCHANGED packageFound
           ELSE /\ IF hasUnwantedPrefix(l, unwantedLinePrefixes) THEN skip ELSE keep
                /\ UNCHANGED <<packageFound, insideImportBlock>>
    /\ cpos' = cpos + 1
    /\ UNCHANGED <<inputs, pc, inPos, k, totalOutput, genVars, output, err, run, first, sub>>

\* changePackage: [panic, lines]; parts[1] = pkgName panics when the line
\* holds no space
RECURSIVE changePackage(_, _, _)
changePackage(lines, name, done) ==
    IF Len(lines) = 0 THEN [panic |-> FALSE, lines |-> << >>]
    ELSE LET s     == dropCR(lines[1])
             hit   == ~done /\ HasPrefix(s, "package")
             parts == Split(s, " ")
             rest  == changePackage(Tail(lines), name, done \/ hit)
         IN  IF hit /\ Len(parts) < 2 THEN [panic |-> TRUE, lines |-> << >>]
             ELSE [panic |-> rest.panic,
                   lines |-> <<IF hit THEN Join([parts EXCEPT ![2] = name], " ") ELSE s>>
                             \o rest.lines]

\* lines 234-242: join the clean lines and change the package name; the result is
\* what Generics hands to imports.Process
Rename ==
    /\ pc = "clean"
    /\ cpos = Len(totalOutput)
    /\ LET cleanOutput == cleanOutputLines
           renamed     == changePackage(cleanOutput, pkgName, FALSE)
       IN  IF pkgName = ""
           THEN /\ output' = Bytes(cleanOutput) /\ pc' = "done"
           ELSE IF renamed.panic
           THEN /\ output' = Nil /\ pc' = "panic"
           ELSE /\ output' = Bytes(renamed.lines) /\ pc' = "done"
    /\ UNCHANGED <<inputs, inPos, k, totalOutput, genVars, cleanVars, err, origin,
                   run, first, sub>>

Next == Begin \/ ScanLine \/ RangeStep \/ WriteLine \/ Return \/ CleanLine \/ Rename

(***************************************************************************)
(* The inputs.                                                             *)
(***************************************************************************)

MaxChunks == 2
MaxSets == 2

RECURSIVE Flatten(_)
Flatten(chunks) == IF Len(chunks) = 0 THEN << >> ELSE chunks[1] \o Flatten(Tail(chunks))

SeqsUpTo(S, n) == UNION {[1..m -> S] : m \in 0..n}

\* the state after construction, at the call of Generics
Start(pkgLines, chunks, sets, names) ==
    /\ \E p \in pkgLines, body \in SeqsUpTo(chunks, MaxChunks) :
          template = <<p>> \o Flatten(body)
    /\ typeSets \in SeqsUpTo(sets, MaxSets) \ {<< >>}
    /\ pkgName \in names
    /\ pc = "begin" /\ inPos = 0 /\ k = 1
    /\ totalOutput = header
    /\ buf = << >> /\ comment = "" /\ line = "" /\ todo = {}
    /\ cpos = 0 /\ packageFound = FALSE /\ insideImportBlock = FALSE
    /\ cleanOutputLines = << >>
    /\ output = Nil /\ err = NoError
    /\ origin = NoOrigin
    /\ run = 1 /\ first = << >>
    /\ sub = NoSub

GenChunks == {<<"type KeyType generic.Type">>,
              <<"type Type generic.Number">>,
              <<"// KeyType doc">>,
              <<"var x KeyType">>}

GenSets == {[KeyType |-> "int", Type |-> "string"], [KeyType |-> "string"],
            [x |-> "*KeyType"]}

Init == Start({"package foo"}, GenChunks, GenSets, {""})

Spec == Init /\ [][Next]_vars

(***************************************************************************)
(* generateSpecific as a function of the source and one typeSet: the       *)
(* results it can return when it runs alone on a reader of the whole       *)
(* source (a set, since the order of the range over typeSet is open).      *)
(***************************************************************************)

\* lines 144-149: the line after the range over the keys in todo, in every order
RECURSIVE rangeResults(_, _, _)
rangeResults(l, typeSet, keys) ==
    IF keys = {} THEN {l}
    ELSE UNION {rangeResults(IF Contains(l, t) THEN subTypeIntoLine(l, t, typeSet[t]) ELSE l,
                             typeSet, keys \ {t}) : t \in keys}

\* lines 134-169 from line i on, with the buffer and the pending comment so far
RECURSIVE scanResults(_, _, _, _, _)
scanResults(lines, i, typeSet, out, pending) ==
    IF i > Len(lines) THEN {out}
    ELSE LET l == dropCR(lines[i])
             flushed == IF pending # "" THEN Append(out, makeLine(pending)) ELSE out
         IN  IF Contains(l, genericType) \/ Contains(l, genericNumber)
             THEN scanResults(lines, i + 1, typeSet, out, "")
             ELSE UNION {IF HasPrefix(r, "//")
                         THEN scanResults(lines, i + 1, typeSet, flushed, r)
                         ELSE scanResults(lines, i + 1, typeSet,
                                          Append(flushed, makeLine(r)), "")
                         : r \in rangeResults(l, typeSet, DOMAIN typeSet)}

generateSpecific(lines, typeSet) == scanResults(lines, 1, typeSet, << >>, "")

(***************************************************************************)
(* Claims about the per-set generator and the order of instantiations.     *)
(***************************************************************************)

\* the names n that the template declares by a line `type n generic.<member>`
\* starting in column 0, in the order of their declarations
RECURSIVE DeclaredPlaceholders(_)
DeclaredPlaceholders(lines) ==
    IF Len(lines) = 0 THEN << >>
    ELSE LET f == Fields(lines[1])
         IN  (IF /\ Len(f) >= 3 /\ f[1] = "type" /\ HasPrefix(lines[1], "type")
                 /\ HasPrefix(f[3], "generic.")
              THEN <<f[2]>> ELSE << >>)
             \o DeclaredPlaceholders(Tail(lines))

\* the declared placeholders that set j has no key for
MissingIn(j) ==
    SelectSeq(DeclaredPlaceholders(template), LAMBDA n : n \notin DOMAIN typeSets[j])

Incomplete == {j \in 1..Len(typeSets) : MissingIn(j) # << >>}

FirstIncomplete == CHOOSE j \in Incomplete : \A j2 \in Incomplete : j <= j2

\* C2: when a placeholder that the template declares is missing from some
\* substitution set, Generics never reaches the cleanup, and it returns a
\* missing-specific-type error and nil bytes: the error names a missing
\* placeholder (the first one declared, of the first incomplete set), and
\* totalOutput holds the banner and lines of earlier sets only (totalOutput
\* changes only where a set begins or the cleanup starts).
C2_CoverageGate ==
    (pc \in {"begin", "done", "panic"} \/ (pc = "clean" /\ cpos = 0)) =>
        (Incomplete # {} =>
            /\ pc \notin {"clean", "panic"}
            /\ \A n \in 1..Len(origin.total) : origin.total[n][1] < FirstIncomplete
            /\ pc = "done" =>
                  /\ err = errMissingSpecificType(Head(MissingIn(FirstIncomplete)))
                  /\ output = Nil
                  /\ k = FirstIncomplete)

\* a run that fails at its second set, after the first one was generated and appended
C2_Witness ==
    /\ pc = "done"
    /\ err.type = "errMissingSpecificType"
    /\ k = 2
    /\ Len(totalOutput) > Len(header)

\* the texts that the banner followed by the instantiations of sets 1..n, each
\* generated alone, can be
RECURSIVE Merged(_)
Merged(n) ==
    IF n = 0 THEN {header}
    ELSE {t \o b : t \in Merged(n - 1), b \in generateSpecific(template, typeSets[n])}

\* C8: before each set and before the cleanup, totalOutput is the banner, once,
\* followed by the instantiations of the sets generated so far in list order,
\* each one a result of the per-set generator run alone on the whole template.
C8_InstantiationOrder ==
    /\ pc = "begin" => totalOutput \in Merged(k - 1)
    /\ (pc = "clean" /\ cpos = 0) => totalOutput \in Merged(Len(typeSets))

\* two sets were generated, the second one not empty, and the merge is complete
C8_Witness ==
    /\ pc = "clean" /\ cpos = 0
    /\ Len(typeSets) = 2
    /\ typeSets[1] # typeSets[2]
    /\ \E n \in 1..Len(origin.total) : origin.total[n][1] = 2

IsScaffolding(l) == Contains(l, "generic.Type") \/ Contains(l, "generic.Number")

\* the template lines C10 says an instantiation holds: every line that is not
\* scaffolding, but for a // comment that a scaffolding line follows directly
C10_Expected ==
    SelectSeq([i \in 1..Len(template) |-> i],
              LAMBDA i : /\ ~IsScaffolding(template[i])
                         /\ ~(/\ HasPrefix(template[i], "//")
                              /\ i < Len(template)
                              /\ IsScaffolding(template[i + 1])))

\* C10: when generateSpecific returns, its buffer holds exactly the lines of
\* C10_Expected, each once and in template order.
C10_PendingComment ==
    (pc = "scan" /\ inPos = Len(template)) => origin.buf = C10_Expected

(***************************************************************************)
(* Two runs of Generics on the same inputs.                                *)
(***************************************************************************)

\* what a run returns
Returned == [output |-> output, err |-> err, panic |-> pc = "panic"]

\* the caller keeps what the first run returned and calls Generics again with
\* the same arguments (and the same reader)
Rerun ==
    /\ pc \in {"done", "panic"}
    /\ run = 1
    /\ first' = Returned
    /\ run' = 2
    /\ pc' = "begin" /\ k' = 1
    /\ totalOutput' = header
    /\ buf' = << >> /\ comment' = "" /\ line' = "" /\ todo' = {}
    /\ cpos' = 0 /\ packageFound' = FALSE /\ insideImportBlock' = FALSE
    /\ cleanOutputLines' = << >>
    /\ output' = Nil /\ err' = NoError
    /\ origin' = NoOrigin
    /\ UNCHANGED <<inputs, inPos, sub>>

NextTwice == Next \/ Rerun

SpecTwice == Init /\ [][NextTwice]_vars

\* C1: the second of two runs on identical inputs returns what the first one
\* returned.
C1_Determinism ==
    (run = 2 /\ pc \in {"done", "panic"}) => Returned = first

(***************************************************************************)
(* The merger and the renamer, on templates with import declarations,      *)
(* go:generate directives and package clauses in several layouts.          *)
(***************************************************************************)

MergePkgs == {"package foo", " package foo", "package  foo", "package\tfoo"}

MergeChunks == {<<"import \"fmt\"">>,
                <<"import (", "\t\"fmt\"", ")">>,
                <<"import (", "\t\"os\"", ") // std">>,
                <<"//go:generate genny -in=t.go gen \"T=int\"">>,
                <<"type T generic.Type">>,
                <<"var x T">>}

MergeSets == {[T |-> "int"], [T |-> "string", gen |-> "bool"]}

InitMerge == Start(MergePkgs, MergeChunks, MergeSets, {"", "bar"})

SpecMerge == InitMerge /\ [][Next]_vars

\* the cleanup has read all of totalOutput: cleanOutputLines is the cleaned merged text
Cleaned == pc = "clean" /\ cpos = Len(totalOutput)

\* the line holds a package clause
IsPackageClause(l) == TokAt(Tokens(l), 1).tok = "package"

\* whether line i of lines belongs to an import declaration, by its tokens:
\* a line that opens with the keyword import, and the lines of a parenthesized
\* import up to the one that holds its closing parenthesis
RECURSIVE InImportDecl(_, _, _, _)
InImportDecl(lines, i, n, inBlock) ==
    LET toks   == Tokens(lines[n])
        opens  == TokAt(toks, 1).tok = "import"
        closes == \E m \in 1..Len(toks) : toks[m].tok = ")"
        is     == inBlock \/ opens
    IN  IF n = i THEN is
        ELSE InImportDecl(lines, i, n + 1,
                          IF inBlock THEN ~closes
                          ELSE opens /\ TokAt(toks, 2).tok = "(" /\ ~closes)

IsImportLine(i) == InImportDecl(template, i, 1, FALSE)

IsDirective(l) == HasPrefix(l, "//go:generate genny ")

\* C3: the cleaned merged text holds exactly one package clause line, the one
\* of the first instantiation.
C3_SinglePackageClause ==
    Cleaned =>
        LET kept == {n \in 1..Len(cleanOutputLines) :
                        /\ origin.clean[n][1] >= 1
                        /\ IsPackageClause(template[origin.clean[n][2]])}
        IN  /\ Cardinality(kept) = 1
            /\ \A n \in kept : origin.clean[n][1] = 1

\* C4: no line of an import declaration of the template is in the cleaned
\* merged text; every line of an instantiation that follows an import
\* declaration and is no import, package or directive line is in it; and
\* insideImportBlock is false when the cleanup comes to the first line of an
\* instantiation.
C4_ImportRemoval ==
    /\ Cleaned =>
          /\ \A n \in 1..Len(cleanOutputLines) :
                origin.clean[n][1] >= 1 => ~IsImportLine(origin.clean[n][2])
          /\ \A n \in 1..Len(totalOutput) :
                LET i == origin.total[n][2]
                IN  (/\ origin.total[n][1] >= 1
                     /\ \E j \in 1..(i - 1) : IsImportLine(j)
                     /\ ~IsImportLine(i)
                     /\ ~IsPackageClause(template[i])
                     /\ ~IsDirective(totalOutput[n]))
                    => \E m \in 1..Len(cleanOutputLines) :
                          origin.clean[m] = origin.total[n]
    /\ (/\ pc = "clean" /\ cpos < Len(totalOutput)
        /\ origin.total[cpos + 1][1] >= 1
        /\ (cpos = 0 \/ origin.total[cpos][1] # origin.total[cpos + 1][1]))
       => ~insideImportBlock

\* C5: no line of the cleaned merged text comes from a template line that
\* begins with the go:generate genny prefix.
C5_DirectiveStripped ==
    Cleaned =>
        \A n \in 1..Len(cleanOutputLines) :
            origin.clean[n][1] >= 1 => ~IsDirective(template[origin.clean[n][2]])

\* the index of the first line that starts with `package` (0 when none)
RECURSIVE FirstPackageLine(_, _)
FirstPackageLine(lines, n) ==
    IF n > Len(lines) THEN 0
    ELSE IF HasPrefix(lines[n], "package") THEN n
    ELSE FirstPackageLine(lines, n + 1)

\* C9: with a target package name, the text after the rename is the cleaned
\* merged text with, in its first line that starts with `package`, the second
\* whitespace-separated token replaced by the target name; without one it is
\* the cleaned merged text.
C9_RenameFrame ==
    ((pc = "done" /\ err = NoError) \/ pc = "panic") =>
        IF pkgName = "" THEN output = Bytes(cleanOutputLines)
        ELSE /\ pc = "done"
             /\ ~output.nil
             /\ Len(output.lines) = Len(cleanOutputLines)
             /\ LET f == FirstPackageLine(cleanOutputLines, 1)
                IN  \A n \in 1..Len(cleanOutputLines) :
                      IF n = f
                      THEN Fields(output.lines[n])
                             = [Fields(cleanOutputLines[n]) EXCEPT ![2] = pkgName]
                      ELSE output.lines[n] = cleanOutputLines[n]

(***************************************************************************)
(* One call of subTypeIntoLine, token by token.                            *)
(***************************************************************************)

\* the calls of subIntoLiteral that the loop makes for token t: [lit, subbed]
literalCalls(t, typeTemplate, specificType) ==
    LET words == IF t.tok = "COMMENT" THEN Fields(t.lit)
                 ELSE IF IsLiteral(t.tok) THEN <<t.lit>>
                 ELSE << >>
    IN  [n \in 1..Len(words) |->
            [lit |-> words[n],
             subbed |-> subIntoLiteral(words[n], typeTemplate, specificType)]]

\* lines 74-87: s.Scan() returns a token, and the loop appends to output
SubScan ==
    /\ sub.pc = "loop"
    /\ LET t == Scan(sub.src, sub.offset, sub.insertSemi)
       IN  /\ t.tok # "EOF"
           /\ sub' = [sub EXCEPT
                        !.offset = t.next,
                        !.insertSemi = t.semi,
                        !.output = @ \o subToken(t, sub.typeTemplate, sub.specificType),
                        !.calls = literalCalls(t, sub.typeTemplate, sub.specificType)]
    /\ UNCHANGED <<inputs, pc, inPos, k, totalOutput, genVars, cleanVars, output, err,
                   origin, run, first>>

\* lines 76-77 and 88: s.Scan() returns EOF, and subTypeIntoLine returns output
SubReturn ==
    /\ sub.pc = "loop"
    /\ Scan(sub.src, sub.offset, sub.insertSemi).tok = "EOF"
    /\ sub' = [sub EXCEPT !.pc = "returned", !.calls = << >>]
    /\ UNCHANGED <<inputs, pc, inPos, k, totalOutput, genVars, cleanVars, output, err,
                   origin, run, first>>

NextLine == SubScan \/ SubReturn

LinePool == {"func (l *KeyTypeList) Push(v KeyType)",
             "x := 1 // a KeyType  value",
             "var itemList []item",
             "a $ KeyType",
             "return \"KeyType\"",
             "// itemCount counts the Items",
             "type KeyType generic.Type",
             "import ("}

PlaceholderPool == {"KeyType", "item", "Type"}

TypePool == {"int", "Person", "*pkg.Thing", "map[string]int"}

InitLine ==
    /\ \E l \in LinePool, t \in PlaceholderPool, r \in TypePool :
          sub = [pc |-> "loop", src |-> l, typeTemplate |-> t, specificType |-> r,
                 offset |-> 1, insertSemi |-> FALSE, output |-> "", calls |-> << >>]
    /\ template = << >> /\ typeSets = << >> /\ pkgName = ""
    /\ pc = "idle" /\ inPos = 0 /\ k = 1
    /\ totalOutput = header
    /\ buf = << >> /\ comment = "" /\ line = "" /\ todo = {}
    /\ cpos = 0 /\ packageFound = FALSE /\ insideImportBlock = FALSE
    /\ cleanOutputLines = << >>
    /\ output = Nil /\ err = NoError
    /\ origin = NoOrigin
    /\ run = 1 /\ first = << >>

SpecLine == InitLine /\ [][NextLine]_vars

ToLower(c) ==
    IF c \in Upper THEN CHOOSE l \in Lower : ToUpper(l) = c ELSE c

\* the bare identifier fragment of a replacement: no trailing braces, no
\* leading pointer or reference sigils, no dots
Fragment(r) == ReplaceAll(TrimLeft(TrimRight(r, {"{", "}"}), {"*", "&"}), ".", "")

ExportedFragment(r) == ToUpper(Char(Fragment(r), 1)) \o From(Fragment(r), 2)

\* C6: for a word w that contains P, is not P and does not start with an
\* upper-case letter, when w with every P replaced by the exported fragment
\* of R begins with that fragment, subIntoLiteral returns that word with its
\* leading fragment's first letter lower-cased.
C6_ExportPreservation ==
    sub.pc = "loop" =>
        \A n \in 1..Len(sub.calls) :
            LET w   == sub.calls[n].lit
                lg  == ExportedFragment(sub.specificType)
                all == ReplaceAll(w, sub.typeTemplate, lg)
            IN  (/\ Contains(w, sub.typeTemplate)
                 /\ w # sub.typeTemplate
                 /\ Char(w, 1) \notin Upper
                 /\ HasPrefix(all, lg))
                => /\ sub.calls[n].subbed = ToLower(Char(all, 1)) \o From(all, 2)
                   /\ Char(sub.calls[n].subbed, 1) \notin Upper

\* the text of a token in the line
TokenText(t) == IF IsLiteral(t.tok) \/ t.tok \in {"COMMENT", "ILLEGAL"} THEN t.lit ELSE t.tok

\* the literal rule: P itself becomes R; a word that contains P gets every P
\* replaced by the exported fragment, and when it then begins with that
\* fragment and the word was not exported, its leading fragment is replaced by
\* the fragment as it is
LiteralRule(w, P, R) ==
    IF w = P THEN R
    ELSE IF ~Contains(w, P) THEN w
    ELSE LET all == ReplaceAll(w, P, ExportedFragment(R))
         IN  IF HasPrefix(all, ExportedFragment(R)) /\ Char(w, 1) \notin Upper
             THEN Fragment(R) \o From(all, Len(ExportedFragment(R)) + 1)
             ELSE all

RECURSIVE EachFollowedBySpace(_)
EachFollowedBySpace(texts) ==
    IF Len(texts) = 0 THEN ""
    ELSE texts[1] \o " " \o EachFollowedBySpace(Tail(texts))

\* the example of C7: the tokens of the output are those of the expected line
C7_Example ==
    (/\ sub.pc = "returned"
     /\ sub.src = "func (l *KeyTypeList) Push(v KeyType)"
     /\ sub.typeTemplate = "KeyType" /\ sub.specificType = "int")
    => LET got  == Tokens(sub.output)
           want == Tokens("func (l *IntList) Push(v int)")
       IN  /\ Len(got) = Len(want)
           /\ \A n \in 1..Len(want) : TokenText(got[n]) = TokenText(want[n])

\* C7 as stated: the output is the tokens of the line, in order and separated
\* by spaces, a literal token rewritten by the literal rule and every other
\* token unchanged (compared word by word, whatever the spacing).
C7_AsStated ==
    /\ sub.pc = "returned" =>
          Fields(sub.output) = Fields(EachFollowedBySpace(
              [n \in 1..Len(Tokens(sub.src)) |->
                  LET t == Tokens(sub.src)[n]
                  IN  IF IsLiteral(t.tok)
                      THEN LiteralRule(t.lit, sub.typeTemplate, sub.specificType)
                      ELSE TokenText(t)]))
    /\ C7_Example

\* C7, amended: the output is, for each token of the line in order, the text
\* below followed by one space: for a literal token the result of the literal
\* rule; for a comment token its whitespace-separated words, each rewritten by
\* the literal rule and followed by one space; for an illegal character the
\* word ILLEGAL; for every other token (the inserted semicolon as `;`) the
\* token itself.
C7_TokenSubstitution ==
    /\ sub.pc = "returned" =>
          sub.output = EachFollowedBySpace(
              [n \in 1..Len(Tokens(sub.src)) |->
                  LET t == Tokens(sub.src)[n]
                  IN  IF IsLiteral(t.tok)
                      THEN LiteralRule(t.lit, sub.typeTemplate, sub.specificType)
                      ELSE IF t.tok = "COMMENT"
                      THEN EachFollowedBySpace(
                               [m \in 1..Len(Fields(t.lit)) |->
                                   LiteralRule(Fields(t.lit)[m], sub.typeTemplate,
                                               sub.specificType)])
                      ELSE t.tok])
    /\ C7_Example

\* the example line was rewritten with KeyType -> int
C7_Witness ==
    /\ sub.pc = "returned"
    /\ sub.src = "func (l *KeyTypeList) Push(v KeyType)"
    /\ sub.typeTemplate = "KeyType" /\ sub.specificType = "int"
    /\ sub.output = "func ( l * IntList ) Push ( v int ) ; "
====
